---- MODULE Spec2Model ----
(***************************************************************************)
(* Model of the adaptive RAG control loop of langgraph-rag:                *)
(*   app/core/graph/adaptive_graph.py   graph wiring and routing           *)
(*   app/core/graph/nodes/*.py          the node functions                 *)
(*   app/services/graph_service.py      GraphService.execute_query         *)
(* of its two batch graders run on their own (document_grader.py,         *)
(* hallucination_grader.py), of the batch-query job                        *)
(* (services/job_manager.py, services/batch_query_service.py,              *)
(* api/routes/batch_queries.py) and of the question assignment of          *)
(* services/collection_manager.py.                                         *)
(* Texts are abstracted to tokens, temperatures and confidences are kept   *)
(* in hundredths (0.6 is 60).                                              *)
(***************************************************************************)
EXTENDS Integers, Sequences, FiniteSets, TLC

VARIABLES
    settings,         \* app.config.settings: the loop budgets of this run
    request,          \* the arguments of execute_query
    state,            \* GraphState, the record every node returns whole
    pc,               \* the node the graph executor runs next, or "END"
    execution_trace,  \* execute_query's execution_trace
    llm_calls,        \* the generator, rewriter and grader invocations so far
    result,           \* what execute_query gave its caller
    grader_run,       \* one call of a grader node function on its own
    _jobs,            \* JobManager._jobs of the batch-query manager
    batch_task,       \* start_batch_query's background task and its locals
    cancel_request,   \* the answer of POST /{job_id}/cancel
    db                \* the collection tables behind a CollectionManager

vars == <<settings, request, state, pc, execution_trace, llm_calls, result,
          grader_run, _jobs, batch_task, cancel_request, db>>

service_vars == <<_jobs, batch_task, cancel_request, db>>

----------------------------------------------------------------------------
(* Bounds of the model *)

MaxGenerationRetries == 3
MaxTransformRetries == 6
MaxTotalIterations == 4
MaxDocs == 2
MaxHallucinationDocs == 7
MaxGradedDocs == 3
MaxBatchSize == 2
MaxRetryAttempts == 2

(* Program constants (app/config.py defaults) *)

default_max_generation_retries == 2
default_max_transform_retries == 2
default_max_total_iterations == 15
graph_recursion_limit == 20
hallucination_batch_size == 3
document_grading_confidence_threshold == 60
retry_temperature_increment == 10

UserQuestions == {"q"}
RewriterOutputs == {"q", "r"}
BaseTemperatures == {0}
CollectionIds == {<<1>>}
EmptyGeneration == 0
None == "None"

Min(a, b) == IF a < b THEN a ELSE b

SettingsSpace ==
    [max_generation_retries : 0..MaxGenerationRetries,
     max_transform_retries : 0..MaxTransformRetries,
     max_total_iterations : (0..MaxTotalIterations) \cup {default_max_total_iterations},
     enable_retry_variation : BOOLEAN]

(* settings as app/config.py sets them when the environment overrides none *)
DefaultSettings ==
    [max_generation_retries |-> default_max_generation_retries,
     max_transform_retries |-> default_max_transform_retries,
     max_total_iterations |-> default_max_total_iterations,
     enable_retry_variation |-> TRUE]

(* What the retrieval backend can hand back: a ranked list of documents. *)
RetrievalResults == {[i \in 1..n |-> i] : n \in 0..MaxDocs}

(* A structured verdict of the document grader (GradeDocuments), or a     *)
(* failed grading call.                                                   *)
DocumentScores ==
    [error : {FALSE}, binary_score : {"yes", "no"},
     confidence : {document_grading_confidence_threshold - 1,
                   document_grading_confidence_threshold}]
    \cup {[error |-> TRUE, binary_score |-> "no", confidence |-> 0]}

(* what one hallucination-grader call can give: a verdict, or an exception *)
BatchVerdicts == {"yes", "no", "error"}

----------------------------------------------------------------------------
(* GraphService.execute_query: the initial GraphState *)

initial_state(req) ==
    [question |-> req.question,
     original_question |-> req.question,
     generation |-> EmptyGeneration,
     documents |-> <<>>,
     model_config |-> req.model_config,
     collection_ids |-> req.collection_ids,
     generation_attempts |-> 0,
     transform_attempts |-> 0,
     total_iterations |-> 0,
     max_iterations_reached |-> FALSE,
     no_relevant_docs_fallback |-> FALSE,
     fallback_type |-> ""]

NoResult ==
    [status |-> "pending", answer |-> EmptyGeneration, documents_retrieved |-> 0,
     graph_trace |-> <<>>, rewritten_question |-> None,
     generation_attempts |-> 0, transform_attempts |-> 0, total_iterations |-> 0,
     max_iterations_reached |-> FALSE, no_relevant_docs_fallback |-> FALSE,
     disclaimer |-> None]

(* no grader node function is being run on its own *)
NoGraderRun ==
    [op |-> "none", confidence_threshold |-> 0, documents |-> <<>>,
     scores |-> <<>>, verdicts |-> <<>>, batch_num |-> 0, calls |-> <<>>,
     returned |-> FALSE, filtered_docs |-> <<>>, is_grounded |-> FALSE,
     input |-> <<>>, backend_ok |-> TRUE, better_question |-> "",
     output |-> <<>>, next_node |-> "",
     batch_size |-> 0, retry_attempts |-> 0, batch_start |-> 0,
     batch_active |-> FALSE, tasks |-> <<>>, all_results |-> <<>>]

(* no batch job started, no collection opened *)
NoBatchTask ==
    [pc |-> "none", job_id |-> "", question_ids |-> <<>>, graph_types |-> <<>>,
     results |-> <<>>, processed_count |-> 0, run |-> 0,
     summary |-> [total |-> 0, successful |-> 0, failed |-> 0, skipped |-> 0]]

(* runs_begun: the iterations of the batch loop begun when the request was *)
(* answered, kept for the properties                                       *)
NoCancelRequest == [status_code |-> "", runs_begun |-> 0]

(* call, question_ids, before, returned: the last call on the collection,  *)
(* the rows it found and what it returned                                  *)
NoDb ==
    [opened |-> FALSE, autoflush |-> FALSE, collection_questions |-> {},
     question_count |-> 0, call |-> "none", question_ids |-> {},
     before |-> {}, returned |-> 0]

ServicesIdle ==
    /\ _jobs = <<>>
    /\ batch_task = NoBatchTask
    /\ cancel_request = NoCancelRequest
    /\ db = NoDb

Init ==
    /\ settings \in SettingsSpace
    /\ request \in [question : UserQuestions,
                    model_config : [temperature : BaseTemperatures],
                    collection_ids : CollectionIds]
    /\ state = initial_state(request)
    /\ pc = "retrieve"
    /\ execution_trace = <<>>
    /\ llm_calls = <<>>
    /\ result = NoResult
    /\ grader_run = NoGraderRun
    /\ ServicesIdle

----------------------------------------------------------------------------
(* nodes/retriever.py: retrieve.  ok = FALSE is a failing backend. *)

(* mutant: a failing backend leaves the documents of the last cycle *)
retrieve_stale(s, ok, raw_documents) ==
    [s EXCEPT !.documents = IF ok THEN raw_documents ELSE s.documents,
              !.total_iterations = s.total_iterations + 1,
              !.max_iterations_reached = FALSE,
              !.no_relevant_docs_fallback = FALSE,
              !.fallback_type = ""]

(* mutant: retrieve does not count itself as an iteration *)
retrieve_uncounted(s, ok, raw_documents) ==
    [s EXCEPT !.documents = IF ok THEN raw_documents ELSE <<>>,
              !.max_iterations_reached = FALSE,
              !.no_relevant_docs_fallback = FALSE,
              !.fallback_type = ""]

retrieve(s, ok, raw_documents) ==
    [s EXCEPT !.documents = IF ok THEN raw_documents ELSE <<>>,
              !.total_iterations = s.total_iterations + 1,
              !.max_iterations_reached = FALSE,
              !.no_relevant_docs_fallback = FALSE,
              !.fallback_type = ""]

----------------------------------------------------------------------------
(* nodes/document_grader.py *)

(* mutant: a confidence equal to the threshold is not enough *)
grade_single_doc_above(doc, score, confidence_threshold) ==
    IF score.error
    THEN [doc |-> doc, is_relevant |-> FALSE, error |-> TRUE]
    ELSE [doc |-> doc,
          is_relevant |-> (score.binary_score = "yes"
                           /\ score.confidence > confidence_threshold),
          error |-> FALSE]

grade_single_doc(doc, score, confidence_threshold) ==
    IF score.error
    THEN [doc |-> doc, is_relevant |-> FALSE, error |-> TRUE]
    ELSE [doc |-> doc,
          is_relevant |-> (score.binary_score = "yes"
                           /\ score.confidence >= confidence_threshold),
          error |-> FALSE]

(* the filtering loop over grading_results *)
RECURSIVE filter_docs(_, _, _)
filter_docs(documents, scores, confidence_threshold) ==
    IF documents = <<>> THEN <<>>
    ELSE LET r == grade_single_doc(Head(documents), Head(scores),
                                   confidence_threshold)
             rest == filter_docs(Tail(documents), Tail(scores),
                                 confidence_threshold)
         IN IF r.is_relevant /\ ~r.error THEN <<r.doc>> \o rest ELSE rest

grade_documents(s, scores) ==
    [s EXCEPT !.documents = filter_docs(s.documents, scores,
                                        document_grading_confidence_threshold),
              !.total_iterations = s.total_iterations + 1,
              !.max_iterations_reached = FALSE,
              !.no_relevant_docs_fallback = FALSE,
              !.fallback_type = ""]

----------------------------------------------------------------------------
(* nodes/generator.py: generate *)

generate_temperature(s, cfg) ==
    LET generation_attempts == s.generation_attempts + 1
        base_temperature == s.model_config.temperature
    IN IF generation_attempts > 1 /\ cfg.enable_retry_variation
       THEN Min(base_temperature
                + (generation_attempts - 1) * retry_temperature_increment, 100)
       ELSE base_temperature


(* mutant: the generator is asked the rewritten question *)
generate_prompt_rewritten(s) ==
    [context |-> s.documents, question |-> s.question]

(* The payload of rag_chain.invoke *)
generate_prompt(s) ==
    [context |-> s.documents, question |-> s.original_question]

(* mutant: the documents are used up by the generation *)
generate_consuming(s, cfg, generation) ==
    [s EXCEPT !.generation = generation,
              !.documents = <<>>,
              !.model_config = [temperature |-> generate_temperature(s, cfg)],
              !.generation_attempts = s.generation_attempts + 1,
              !.total_iterations = s.total_iterations + 1,
              !.max_iterations_reached = FALSE,
              !.no_relevant_docs_fallback = FALSE,
              !.fallback_type = ""]

(* mutant: a generation is not counted as a generation attempt *)
generate_uncounted(s, cfg, generation) ==
    [s EXCEPT !.generation = generation,
              !.model_config = [temperature |-> generate_temperature(s, cfg)],
              !.total_iterations = s.total_iterations + 1,
              !.max_iterations_reached = FALSE,
              !.no_relevant_docs_fallback = FALSE,
              !.fallback_type = ""]

generate(s, cfg, generation) ==
    [s EXCEPT !.generation = generation,
              !.model_config = [temperature |-> generate_temperature(s, cfg)],
              !.generation_attempts = s.generation_attempts + 1,
              !.total_iterations = s.total_iterations + 1,
              !.max_iterations_reached = FALSE,
              !.no_relevant_docs_fallback = FALSE,
              !.fallback_type = ""]

----------------------------------------------------------------------------
(* nodes/rewriter.py: transform_query *)

(* mutant: the rewrite forgets the answer generated so far *)
transform_query_blank(s, better_question) ==
    [s EXCEPT !.question = better_question,
              !.generation = EmptyGeneration,
              !.transform_attempts = s.transform_attempts + 1,
              !.total_iterations = s.total_iterations + 1,
              !.max_iterations_reached = FALSE,
              !.no_relevant_docs_fallback = FALSE,
              !.fallback_type = ""]

(* mutant: the rewritten question is stored as the original one too *)
transform_query_forgetful(s, better_question) ==
    [s EXCEPT !.question = better_question,
              !.original_question = better_question,
              !.transform_attempts = s.transform_attempts + 1,
              !.total_iterations = s.total_iterations + 1,
              !.max_iterations_reached = FALSE,
              !.no_relevant_docs_fallback = FALSE,
              !.fallback_type = ""]

(* mutant: a rewrite is not counted *)
transform_query_uncounted(s, better_question) ==
    [s EXCEPT !.question = better_question,
              !.total_iterations = s.total_iterations + 1,
              !.max_iterations_reached = FALSE,
              !.no_relevant_docs_fallback = FALSE,
              !.fallback_type = ""]

transform_query(s, better_question) ==
    [s EXCEPT !.question = better_question,
              !.transform_attempts = s.transform_attempts + 1,
              !.total_iterations = s.total_iterations + 1,
              !.max_iterations_reached = FALSE,
              !.no_relevant_docs_fallback = FALSE,
              !.fallback_type = ""]

----------------------------------------------------------------------------
(* nodes/hallucination_grader.py: grade_hallucination.  verdicts[b] is what *)
(* the model would answer for batch b.                                      *)

NumBatches(documents) ==
    (Len(documents) + hallucination_batch_size - 1) \div hallucination_batch_size

(* index of the batch at which the check stops, 0 when no batch says yes *)
RECURSIVE first_grounded_batch(_, _, _)
first_grounded_batch(verdicts, b, n) ==
    IF b > n THEN 0
    ELSE IF verdicts[b] = "yes" THEN b
    ELSE first_grounded_batch(verdicts, b + 1, n)

grade_hallucination(documents, verdicts) ==
    IF documents = <<>> THEN FALSE
    ELSE first_grounded_batch(verdicts, 1, NumBatches(documents)) # 0

(* number of model calls grade_hallucination makes *)
hallucination_calls(documents, verdicts) ==
    LET n == NumBatches(documents)
        g == first_grounded_batch(verdicts, 1, n)
    IN IF documents = <<>> THEN 0 ELSE IF g = 0 THEN n ELSE g

(* nodes/answer_grader.py: AnswerGrader.prepare_input *)
answer_grader_input(s) ==
    [question |-> s.question, generation |-> s.generation]

----------------------------------------------------------------------------
(* adaptive_graph.py: routing *)

(* mutant: the rewrite budget is not among the limits *)
check_iteration_limits_two_budgets(s, cfg) ==
    \/ s.generation_attempts >= cfg.max_generation_retries
    \/ s.total_iterations >= cfg.max_total_iterations

(* mutant: the generation budget is compared with > *)
check_iteration_limits_late(s, cfg) ==
    \/ s.generation_attempts > cfg.max_generation_retries
    \/ s.transform_attempts >= cfg.max_transform_retries
    \/ s.total_iterations >= cfg.max_total_iterations

check_iteration_limits(s, cfg) ==
    \/ s.generation_attempts >= cfg.max_generation_retries
    \/ s.transform_attempts >= cfg.max_transform_retries
    \/ s.total_iterations >= cfg.max_total_iterations


(* mutant: the transform budget is compared with > *)
decide_to_generate_late(s, cfg) ==
    IF s.documents = <<>>
    THEN IF s.transform_attempts > cfg.max_transform_retries
         THEN "no_docs_fallback"
         ELSE "transform_query"
    ELSE "generate"

(* mutant: with the total budget used up no rewrite is tried *)
decide_to_generate_budgeted(s, cfg) ==
    IF s.documents = <<>>
    THEN IF \/ s.transform_attempts >= cfg.max_transform_retries
            \/ s.total_iterations >= cfg.max_total_iterations
         THEN "no_docs_fallback"
         ELSE "transform_query"
    ELSE "generate"

decide_to_generate(s, cfg) ==
    IF s.documents = <<>>
    THEN IF s.transform_attempts >= cfg.max_transform_retries
         THEN "no_docs_fallback"
         ELSE "transform_query"
    ELSE "generate"

(* mutant: an ungrounded answer is given up on at once, without a retry *)
grade_generation_without_retry(s, cfg, is_grounded, addresses_question) ==
    IF check_iteration_limits(s, cfg) THEN "max_iterations"
    ELSE IF is_grounded
         THEN IF addresses_question THEN "useful"
              ELSE IF s.transform_attempts >= cfg.max_transform_retries
                   THEN "useful"
                   ELSE "not useful"
         ELSE "max_iterations"

(* mutant: an answer that does not address the question is accepted *)
grade_generation_lenient(s, cfg, is_grounded, addresses_question) ==
    IF s.generation_attempts >= cfg.max_generation_retries
       \/ s.transform_attempts >= cfg.max_transform_retries
       \/ s.total_iterations >= cfg.max_total_iterations
    THEN "max_iterations"
    ELSE IF is_grounded
         THEN "useful"
         ELSE IF s.generation_attempts >= cfg.max_generation_retries
              THEN "max_iterations"
              ELSE "not supported"

(* mutant: the budgets are not checked before the graders run *)
grade_generation_unlimited(s, cfg, is_grounded, addresses_question) ==
    IF is_grounded
    THEN IF addresses_question THEN "useful"
         ELSE IF s.transform_attempts >= cfg.max_transform_retries
              THEN "useful"
              ELSE "not useful"
    ELSE IF s.generation_attempts >= cfg.max_generation_retries
         THEN "max_iterations"
         ELSE "not supported"

grade_generation_v_documents_and_question(s, cfg, is_grounded, addresses_question) ==
    IF check_iteration_limits(s, cfg) THEN "max_iterations"
    ELSE IF is_grounded
         THEN IF addresses_question THEN "useful"
              ELSE IF s.transform_attempts >= cfg.max_transform_retries
                   THEN "useful"
                   ELSE "not useful"
         ELSE IF s.generation_attempts >= cfg.max_generation_retries
              THEN "max_iterations"
              ELSE "not supported"


(* mutant: the "max_iterations" decision is left without a node *)
generate_edges_unmapped(decision) ==
    CASE decision = "not supported" -> "generate"
      [] decision = "useful" -> "END"
      [] decision = "not useful" -> "transform_query"
      [] decision = "max_iterations" -> "max_iterations"

(* graph.add_edge("retrieve", "grade_documents") and                       *)
(* graph.add_edge("transform_query", "retrieve")                           *)
retrieve_edge == "grade_documents"
transform_query_edge == "retrieve"

(* mutant: the targets of "not supported" and "not useful" are swapped *)
generate_edges_swapped(decision) ==
    CASE decision = "not supported" -> "transform_query"
      [] decision = "useful" -> "END"
      [] decision = "not useful" -> "generate"
      [] decision = "max_iterations" -> "fallback"

(* the conditional edges of "generate" *)
generate_edges(decision) ==
    CASE decision = "not supported" -> "generate"
      [] decision = "useful" -> "END"
      [] decision = "not useful" -> "transform_query"
      [] decision = "max_iterations" -> "fallback"


(* mutant: the no-context answer is not stored *)
generate_no_docs_fallback_unstored(s, generation) ==
    [s EXCEPT !.documents = <<>>,
              !.generation_attempts = 1,
              !.total_iterations = s.total_iterations + 1,
              !.max_iterations_reached = TRUE,
              !.no_relevant_docs_fallback = TRUE,
              !.fallback_type = "no_relevant_docs"]

(* mutant: the no-context fallback marks the state like the other fallback *)
generate_no_docs_fallback_unflagged(s, generation) ==
    [s EXCEPT !.documents = <<>>,
              !.generation = generation,
              !.generation_attempts = 1,
              !.total_iterations = s.total_iterations + 1,
              !.max_iterations_reached = TRUE,
              !.no_relevant_docs_fallback = FALSE,
              !.fallback_type = "max_iterations"]

generate_no_docs_fallback(s, generation) ==
    [s EXCEPT !.documents = <<>>,
              !.generation = generation,
              !.generation_attempts = 1,
              !.total_iterations = s.total_iterations + 1,
              !.max_iterations_reached = TRUE,
              !.no_relevant_docs_fallback = TRUE,
              !.fallback_type = "no_relevant_docs"]

no_docs_fallback_prompt(s) ==
    [question |-> s.question]


(* mutant: the fallback node counts itself as an iteration *)
mark_max_iterations_counted(s) ==
    [s EXCEPT !.total_iterations = s.total_iterations + 1,
              !.max_iterations_reached = TRUE,
              !.no_relevant_docs_fallback = FALSE,
              !.fallback_type = "max_iterations"]

(* mutant: the fallback node labels the state like the no-context fallback *)
mark_max_iterations_mistyped(s) ==
    [s EXCEPT !.max_iterations_reached = TRUE,
              !.no_relevant_docs_fallback = FALSE,
              !.fallback_type = "no_relevant_docs"]

mark_max_iterations(s) ==
    [s EXCEPT !.max_iterations_reached = TRUE,
              !.no_relevant_docs_fallback = FALSE,
              !.fallback_type = "max_iterations"]

----------------------------------------------------------------------------
(* graph_service.py: result extraction *)

NoDocsDisclaimer ==
    "Diese Antwort basiert auf allgemeinem Wissen, nicht auf Dokumenten aus der Wissensbasis."
NotVerifiedDisclaimer ==
    "Diese Antwort konnte nicht vollstaendig verifiziert werden."

(* mutant: max_iterations_reached is tested before no_relevant_docs_fallback *)
_get_disclaimer_text_swapped(final_state) ==
    IF final_state.max_iterations_reached THEN NotVerifiedDisclaimer
    ELSE IF final_state.no_relevant_docs_fallback THEN NoDocsDisclaimer
    ELSE None

_get_disclaimer_text(final_state) ==
    IF final_state.no_relevant_docs_fallback THEN NoDocsDisclaimer
    ELSE IF final_state.max_iterations_reached THEN NotVerifiedDisclaimer
    ELSE None

extract_result(final_state, req, trace) ==
    [status |-> "returned",
     answer |-> final_state.generation,
     documents_retrieved |-> Len(final_state.documents),
     graph_trace |-> trace,
     rewritten_question |-> IF final_state.question # req.question
                            THEN final_state.question ELSE None,
     generation_attempts |-> final_state.generation_attempts,
     transform_attempts |-> final_state.transform_attempts,
     total_iterations |-> final_state.total_iterations,
     max_iterations_reached |-> final_state.max_iterations_reached,
     no_relevant_docs_fallback |-> final_state.no_relevant_docs_fallback,
     disclaimer |-> _get_disclaimer_text(final_state)]

----------------------------------------------------------------------------
(* The invocations of the model-backed components, as a log: which one was *)
(* invoked, the question text handed to it (for the components a question  *)
(* is handed to) and the verdict it gave.                                  *)

Call(kind, question, verdict) ==
    [kind |-> kind, question |-> question, verdict |-> verdict]

GeneratorKinds == {"generate", "no_docs_generate"}

(* the answers of the generator are numbered in the order they are given *)
generator_calls_made ==
    Cardinality({i \in 1..Len(llm_calls) : llm_calls[i].kind \in GeneratorKinds})

next_generation == generator_calls_made + 1

(* graph.stream(initial_state, {"recursion_limit": ...}): the executor runs *)
(* at most graph_recursion_limit nodes and raises when the graph has not    *)
(* reached END by then; execute_query re-raises.                            *)
WithinRecursionLimit == Len(execution_trace) < graph_recursion_limit

Running == result.status = "pending" /\ WithinRecursionLimit

(* One action per node of the graph: the node function, then the edge (or  *)
(* conditional edge) leaving it.  limited: run under execute_query's       *)
(* recursion limit.                                                        *)

Retrieve(limited) ==
    /\ limited => Running
    /\ pc = "retrieve"
    /\ \E ok \in BOOLEAN, raw \in RetrievalResults :
          state' = retrieve(state, ok, raw)
    /\ pc' = retrieve_edge
    /\ execution_trace' = Append(execution_trace, "retrieve")
    /\ UNCHANGED <<service_vars, grader_run, settings, request, llm_calls, result>>

GradeDocuments(limited) ==
    /\ limited => Running
    /\ pc = "grade_documents"
    /\ \E scores \in [1..Len(state.documents) -> DocumentScores] :
          LET s1 == grade_documents(state, scores)
          IN /\ state' = s1
             /\ pc' = decide_to_generate(s1, settings)
             /\ llm_calls' = Append(llm_calls,
                    Call("grade_documents", "",
                         IF s1.documents = <<>> THEN "none" ELSE "relevant"))
    /\ execution_trace' = Append(execution_trace, "grade_documents")
    /\ UNCHANGED <<service_vars, grader_run, settings, request, result>>

(* the grader calls grade_generation_v_documents_and_question makes *)
grader_calls(s, cfg, verdicts, answer) ==
    IF check_iteration_limits(s, cfg) THEN <<>>
    ELSE IF grade_hallucination(s.documents, verdicts)
         THEN <<Call("hallucination_grader", "", "grounded"),
                Call("answer_grader", answer_grader_input(s).question, answer)>>
         ELSE <<Call("hallucination_grader", "", "not_grounded")>>

Generate(limited) ==
    /\ limited => Running
    /\ pc = "generate"
    /\ \E verdicts \in [1..NumBatches(state.documents) -> BatchVerdicts],
          answer \in {"yes", "no"} :
          LET s1 == generate(state, settings, next_generation)
              decision == grade_generation_v_documents_and_question(
                              s1, settings,
                              grade_hallucination(s1.documents, verdicts),
                              answer = "yes")
          IN /\ state' = s1
             /\ pc' = generate_edges(decision)
             /\ llm_calls' = llm_calls
                    \o <<Call("generate", generate_prompt(state).question, "")>>
                    \o grader_calls(s1, settings, verdicts, answer)
    /\ execution_trace' = Append(execution_trace, "generate")
    /\ UNCHANGED <<service_vars, grader_run, settings, request, result>>

TransformQuery(limited) ==
    /\ limited => Running
    /\ pc = "transform_query"
    /\ \E better_question \in RewriterOutputs :
          state' = transform_query(state, better_question)
    /\ pc' = transform_query_edge
    /\ llm_calls' = Append(llm_calls, Call("rewriter", "", ""))
    /\ execution_trace' = Append(execution_trace, "transform_query")
    /\ UNCHANGED <<service_vars, grader_run, settings, request, result>>

NoDocsFallback(limited) ==
    /\ limited => Running
    /\ pc = "no_docs_fallback"
    /\ state' = generate_no_docs_fallback(state, next_generation)
    /\ pc' = "END"
    /\ llm_calls' = Append(llm_calls,
           Call("no_docs_generate", no_docs_fallback_prompt(state).question, ""))
    /\ execution_trace' = Append(execution_trace, "no_docs_fallback")
    /\ UNCHANGED <<service_vars, grader_run, settings, request, result>>

Fallback(limited) ==
    /\ limited => Running
    /\ pc = "fallback"
    /\ state' = mark_max_iterations(state)
    /\ pc' = "END"
    /\ execution_trace' = Append(execution_trace, "fallback")
    /\ UNCHANGED <<service_vars, grader_run, settings, request, llm_calls, result>>

RaiseRecursionError ==
    /\ result.status = "pending"
    /\ pc # "END"
    /\ ~WithinRecursionLimit
    /\ result' = [NoResult EXCEPT !.status = "raised"]
    /\ UNCHANGED <<service_vars, grader_run, settings, request, state, pc, execution_trace, llm_calls>>

ReturnResult ==
    /\ result.status = "pending"
    /\ pc = "END"
    /\ result' = extract_result(state, request, execution_trace)
    /\ UNCHANGED <<service_vars, grader_run, settings, request, state, pc, execution_trace, llm_calls>>

Next ==
    \/ Retrieve(TRUE)
    \/ GradeDocuments(TRUE)
    \/ Generate(TRUE)
    \/ TransformQuery(TRUE)
    \/ NoDocsFallback(TRUE)
    \/ Fallback(TRUE)
    \/ RaiseRecursionError
    \/ ReturnResult

(* execute_query as the program runs it *)
Spec == Init /\ [][Next]_vars

(* the compiled graph on its own, run by an executor that sets no step     *)
(* limit and always takes the next step                                    *)
LoopNext ==
    \/ Retrieve(FALSE)
    \/ GradeDocuments(FALSE)
    \/ Generate(FALSE)
    \/ TransformQuery(FALSE)
    \/ NoDocsFallback(FALSE)
    \/ Fallback(FALSE)

LoopSpec == Init /\ [][LoopNext]_vars /\ WF_vars(LoopNext)

----------------------------------------------------------------------------
(* The two batch graders called on their own: grade_documents with any     *)
(* confidence threshold in the settings and any structured scores, and     *)
(* grade_hallucination one loop iteration at a time, the model behind it   *)
(* answering each batch in any way.                                        *)

ConfidenceThresholds == {0, document_grading_confidence_threshold, 100}

GradedScores ==
    [error : {FALSE}, binary_score : {"yes", "no"},
     confidence : {0, document_grading_confidence_threshold - 1,
                   document_grading_confidence_threshold,
                   document_grading_confidence_threshold + 1, 100}]
    \cup {[error |-> TRUE, binary_score |-> "no", confidence |-> 0]}

HallucinationInputs == {[i \in 1..n |-> i] : n \in 0..MaxHallucinationDocs}

(* doc_batch of loop iteration batch_num *)
doc_batch(documents, batch_num) ==
    LET batch_start == (batch_num - 1) * hallucination_batch_size
        batch_end == Min(batch_start + hallucination_batch_size, Len(documents))
    IN SubSeq(documents, batch_start + 1, batch_end)

loop_vars == <<settings, request, state, pc, execution_trace, llm_calls, result>>

GraderInit ==
    /\ settings = DefaultSettings
    /\ request \in [question : UserQuestions,
                    model_config : [temperature : BaseTemperatures],
                    collection_ids : CollectionIds]
    /\ state = initial_state(request)
    /\ pc = "retrieve"
    /\ execution_trace = <<>>
    /\ llm_calls = <<>>
    /\ result = NoResult
    /\ grader_run = NoGraderRun
    /\ ServicesIdle

(* grade_documents, whole: every document graded, the results filtered *)
CallGradeDocuments ==
    /\ grader_run.op = "none"
    /\ \E confidence_threshold \in ConfidenceThresholds,
          documents \in RetrievalResults :
          \E scores \in [1..Len(documents) -> GradedScores] :
             grader_run' =
                [NoGraderRun EXCEPT
                    !.op = "grade_documents",
                    !.confidence_threshold = confidence_threshold,
                    !.documents = documents,
                    !.scores = scores,
                    !.filtered_docs = filter_docs(documents, scores,
                                                  confidence_threshold),
                    !.returned = TRUE]
    /\ UNCHANGED <<loop_vars, service_vars>>

(* grade_hallucination up to its loop: no documents, not grounded *)
CallGradeHallucination ==
    /\ grader_run.op = "none"
    /\ \E documents \in HallucinationInputs :
          \E verdicts \in [1..NumBatches(documents) -> BatchVerdicts] :
             grader_run' =
                [NoGraderRun EXCEPT
                    !.op = "grade_hallucination",
                    !.documents = documents,
                    !.verdicts = verdicts,
                    !.returned = (documents = <<>>)]
    /\ UNCHANGED <<loop_vars, service_vars>>

(* mutant: a grounded batch does not end the loop *)
HallucinationBatch_exhaustive ==
    /\ grader_run.op = "grade_hallucination"
    /\ ~grader_run.returned
    /\ grader_run.batch_num < NumBatches(grader_run.documents)
    /\ LET batch_num == grader_run.batch_num + 1
           score == grader_run.verdicts[batch_num]
       IN grader_run' =
             [grader_run EXCEPT
                 !.batch_num = batch_num,
                 !.calls = Append(@, [batch_num |-> batch_num,
                                      documents |-> doc_batch(grader_run.documents,
                                                              batch_num)]),
                 !.is_grounded = (@ \/ score = "yes")]
    /\ UNCHANGED <<loop_vars, service_vars>>

(* one iteration of the loop over the batches: the grader is invoked on    *)
(* the batch; "yes" returns grounded, "no" or an exception goes on         *)
HallucinationBatch ==
    /\ grader_run.op = "grade_hallucination"
    /\ ~grader_run.returned
    /\ grader_run.batch_num < NumBatches(grader_run.documents)
    /\ LET batch_num == grader_run.batch_num + 1
           score == grader_run.verdicts[batch_num]
       IN grader_run' =
             [grader_run EXCEPT
                 !.batch_num = batch_num,
                 !.calls = Append(@, [batch_num |-> batch_num,
                                      documents |-> doc_batch(grader_run.documents,
                                                              batch_num)]),
                 !.is_grounded = (score = "yes"),
                 !.returned = (score = "yes")]
    /\ UNCHANGED <<loop_vars, service_vars>>

(* the loop ran out of batches: not grounded *)
HallucinationNotGrounded ==
    /\ grader_run.op = "grade_hallucination"
    /\ ~grader_run.returned
    /\ grader_run.batch_num = NumBatches(grader_run.documents)
    /\ grader_run' = [grader_run EXCEPT !.is_grounded = FALSE,
                                        !.returned = TRUE]
    /\ UNCHANGED <<loop_vars, service_vars>>

GraderNext ==
    \/ CallGradeDocuments
    \/ CallGradeHallucination
    \/ HallucinationBatch
    \/ HallucinationNotGrounded

GraderSpec == GraderInit /\ [][GraderNext]_vars

----------------------------------------------------------------------------
(* grade_documents with its event loop: grade_all_docs starts the grading  *)
(* coroutines of one batch, gathers them, and goes on to the next batch;   *)
(* grade_single_doc awaits the grader, retrying after a closed-transport   *)
(* RuntimeError.  Every await is a step, the grader answering in any way.  *)

GradedDocuments == {[i \in 1..n |-> i] : n \in 0..MaxGradedDocs}

(* what one grader.ainvoke can do: return a score, raise the RuntimeError  *)
(* of a closed TCP transport, or raise anything else                       *)
GradingScores ==
    {[error |-> FALSE, binary_score |-> "yes",
      confidence |-> document_grading_confidence_threshold],
     [error |-> FALSE, binary_score |-> "yes",
      confidence |-> document_grading_confidence_threshold - 1],
     [error |-> FALSE, binary_score |-> "no",
      confidence |-> document_grading_confidence_threshold]}

NoScore == [error |-> TRUE, binary_score |-> "no", confidence |-> 0]

AinvokeOutcomes ==
    [raised : {"none"}, score : GradingScores]
    \cup [raised : {"tcp_closed", "other"}, score : {NoScore}]

(* mutant: a batch takes one document more than the batch size *)
grading_batch_end_wide(batch_start, batch_size, n) ==
    Min(batch_start + batch_size + 1, n)

grading_batch_end(batch_start, batch_size, n) ==
    Min(batch_start + batch_size, n)

BatchOf(run) ==
    (run.batch_start + 1)
        ..grading_batch_end(run.batch_start, run.batch_size, Len(run.documents))

(* a coroutine of grade_single_doc up to its first await: with no attempt  *)
(* allowed the loop body never runs and score stays None                   *)
NewTask(max_retries) ==
    IF max_retries = 0
    THEN [status |-> "done", attempt |-> 0, calls |-> <<>>, result |-> "error"]
    ELSE [status |-> "calling", attempt |-> 0, calls |-> <<>>, result |-> "none"]

PendingTask ==
    [status |-> "pending", attempt |-> 0, calls |-> <<>>, result |-> "none"]

CallGradeAllDocs ==
    /\ grader_run.op = "none"
    /\ \E documents \in GradedDocuments,
          batch_size \in 1..MaxBatchSize,
          retry_attempts \in 0..MaxRetryAttempts :
          grader_run' =
             [NoGraderRun EXCEPT
                 !.op = "grade_all_docs",
                 !.confidence_threshold = document_grading_confidence_threshold,
                 !.documents = documents,
                 !.batch_size = batch_size,
                 !.retry_attempts = retry_attempts,
                 !.tasks = [i \in 1..Len(documents) |-> PendingTask]]
    /\ UNCHANGED <<loop_vars, service_vars>>

(* one iteration of the batch loop up to the await of asyncio.gather *)
BatchStart ==
    /\ grader_run.op = "grade_all_docs"
    /\ ~grader_run.returned
    /\ ~grader_run.batch_active
    /\ grader_run.batch_start < Len(grader_run.documents)
    /\ grader_run' =
          [grader_run EXCEPT
              !.batch_active = TRUE,
              !.tasks = [i \in 1..Len(grader_run.documents) |->
                            IF i \in BatchOf(grader_run)
                            THEN NewTask(grader_run.retry_attempts)
                            ELSE @[i]]]
    /\ UNCHANGED <<loop_vars, service_vars>>

(* the task as grade_single_doc leaves it when grader.ainvoke returns or   *)
(* raises on attempt task.attempt                                          *)
after_ainvoke(task, doc, outcome, max_retries, confidence_threshold) ==
    LET calls == Append(task.calls, outcome)
    IN IF outcome.raised = "none"
       THEN [task EXCEPT
                !.status = "done",
                !.calls = calls,
                !.result = IF grade_single_doc(doc, outcome.score,
                                               confidence_threshold).is_relevant
                           THEN "relevant" ELSE "not_relevant"]
       ELSE IF outcome.raised = "tcp_closed" /\ task.attempt < max_retries - 1
            THEN [task EXCEPT !.status = "sleeping", !.calls = calls]
            ELSE [task EXCEPT !.status = "done", !.calls = calls,
                              !.result = "error"]

AinvokeReturns(i) ==
    /\ grader_run.op = "grade_all_docs"
    /\ i \in 1..Len(grader_run.documents)
    /\ grader_run.tasks[i].status = "calling"
    /\ \E outcome \in AinvokeOutcomes :
          grader_run' =
             [grader_run EXCEPT
                 !.tasks[i] = after_ainvoke(@, grader_run.documents[i], outcome,
                                            grader_run.retry_attempts,
                                            grader_run.confidence_threshold)]
    /\ UNCHANGED <<loop_vars, service_vars>>

(* asyncio.sleep is over: the next attempt of the retry loop *)
RetryAfterSleep(i) ==
    /\ grader_run.op = "grade_all_docs"
    /\ i \in 1..Len(grader_run.documents)
    /\ grader_run.tasks[i].status = "sleeping"
    /\ grader_run' =
          [grader_run EXCEPT !.tasks[i].status = "calling",
                             !.tasks[i].attempt = @ + 1]
    /\ UNCHANGED <<loop_vars, service_vars>>

(* asyncio.gather returns: the results of the batch are appended in order *)
BatchGathered ==
    /\ grader_run.op = "grade_all_docs"
    /\ grader_run.batch_active
    /\ \A i \in BatchOf(grader_run) : grader_run.tasks[i].status = "done"
    /\ LET batch_end == grading_batch_end(grader_run.batch_start,
                                          grader_run.batch_size,
                                          Len(grader_run.documents))
       IN grader_run' =
             [grader_run EXCEPT
                 !.batch_active = FALSE,
                 !.batch_start = @ + grader_run.batch_size,
                 !.all_results =
                     @ \o [k \in 1..(batch_end - grader_run.batch_start) |->
                              [doc |-> grader_run.documents[grader_run.batch_start + k],
                               result |-> grader_run.tasks[grader_run.batch_start + k].result]]]
    /\ UNCHANGED <<loop_vars, service_vars>>

RECURSIVE filter_results(_)
filter_results(grading_results) ==
    IF grading_results = <<>> THEN <<>>
    ELSE IF Head(grading_results).result = "relevant"
         THEN <<Head(grading_results).doc>> \o filter_results(Tail(grading_results))
         ELSE filter_results(Tail(grading_results))

(* mutant: one failed grading empties the filtered list *)
GradingReturns_strict ==
    /\ grader_run.op = "grade_all_docs"
    /\ ~grader_run.returned
    /\ ~grader_run.batch_active
    /\ grader_run.batch_start >= Len(grader_run.documents)
    /\ grader_run' =
          [grader_run EXCEPT
              !.returned = TRUE,
              !.filtered_docs =
                  IF \E k \in 1..Len(grader_run.all_results) :
                        grader_run.all_results[k].result = "error"
                  THEN <<>>
                  ELSE filter_results(grader_run.all_results)]
    /\ UNCHANGED <<loop_vars, service_vars>>

(* the batch loop is over: the results are filtered and the node returns *)
GradingReturns ==
    /\ grader_run.op = "grade_all_docs"
    /\ ~grader_run.returned
    /\ ~grader_run.batch_active
    /\ grader_run.batch_start >= Len(grader_run.documents)
    /\ grader_run' =
          [grader_run EXCEPT
              !.returned = TRUE,
              !.filtered_docs = filter_results(grader_run.all_results)]
    /\ UNCHANGED <<loop_vars, service_vars>>

GradingNext ==
    \/ CallGradeAllDocs
    \/ BatchStart
    \/ \E i \in 1..MaxGradedDocs : AinvokeReturns(i)
    \/ \E i \in 1..MaxGradedDocs : RetryAfterSleep(i)
    \/ BatchGathered
    \/ GradingReturns

GradingSpec == GraderInit /\ [][GradingNext]_vars

----------------------------------------------------------------------------
(* retrieve and transform_query called on their own, on any state the loop *)
(* can hand them, with the backend answering or failing and the rewriter   *)
(* returning any text.                                                     *)

MaxNodeInputAttempts == 1

NodeInputs ==
    {s \in [question : RewriterOutputs,
            original_question : UserQuestions,
            generation : {EmptyGeneration, 1},
            documents : RetrievalResults,
            model_config : [temperature : BaseTemperatures],
            collection_ids : CollectionIds,
            generation_attempts : 0..MaxNodeInputAttempts,
            transform_attempts : 0..MaxNodeInputAttempts,
            total_iterations : 0..MaxTotalIterations,
            max_iterations_reached : {FALSE},
            no_relevant_docs_fallback : {FALSE},
            fallback_type : {""}] :
        /\ s.generation = EmptyGeneration <=> s.generation_attempts = 0
        /\ s.question # s.original_question => s.transform_attempts >= 1
        /\ s.total_iterations >= s.generation_attempts + s.transform_attempts}

CallRetrieve ==
    /\ grader_run.op = "none"
    /\ \E s \in NodeInputs, ok \in BOOLEAN, raw \in RetrievalResults :
          grader_run' = [NoGraderRun EXCEPT !.op = "retrieve",
                                           !.input = s,
                                           !.backend_ok = ok,
                                           !.output = retrieve(s, ok, raw),
                                           !.next_node = retrieve_edge,
                                           !.returned = TRUE]
    /\ UNCHANGED <<loop_vars, service_vars>>

CallTransformQuery ==
    /\ grader_run.op = "none"
    /\ \E s \in NodeInputs, better_question \in RewriterOutputs :
          grader_run' = [NoGraderRun EXCEPT
                            !.op = "transform_query",
                            !.input = s,
                            !.better_question = better_question,
                            !.output = transform_query(s, better_question),
                            !.next_node = transform_query_edge,
                            !.returned = TRUE]
    /\ UNCHANGED <<loop_vars, service_vars>>

NodeNext ==
    \/ CallRetrieve
    \/ CallTransformQuery

NodeSpec == GraderInit /\ [][NodeNext]_vars

----------------------------------------------------------------------------
(* Vocabulary of the properties *)

Executions(node) ==
    Cardinality({i \in 1..Len(execution_trace) : execution_trace[i] = node})

LastNode ==
    IF execution_trace = <<>> THEN "" ELSE execution_trace[Len(execution_trace)]

AtEnd == pc = "END"

CallsOf(kind) == {i \in 1..Len(llm_calls) : llm_calls[i].kind = kind}

(* the hallucination grader never said grounded *)
NeverGrounded ==
    \A i \in CallsOf("hallucination_grader") : llm_calls[i].verdict = "not_grounded"

(* every document grading kept at least one document *)
AlwaysRelevantDocs ==
    \A i \in CallsOf("grade_documents") : llm_calls[i].verdict = "relevant"

(* every document grading kept no document *)
NeverRelevantDocs ==
    \A i \in CallsOf("grade_documents") : llm_calls[i].verdict = "none"

----------------------------------------------------------------------------
----------------------------------------------------------------------------
(* C2: the number of node executions of one execution is at most           *)
(* max_total_iterations plus a constant that does not depend on the other  *)
(* two budgets.  Stated with the constant 4, the most a loop that checked   *)
(* the total budget after every generate could overrun it by.               *)
C2_BoundedByTotalBudget ==
    Len(execution_trace) <= settings.max_total_iterations + 4

----------------------------------------------------------------------------
(* C3: at END the two fallback flags are never both true.                  *)
C3_FallbackExclusivity ==
    AtEnd => ~(state.no_relevant_docs_fallback /\ state.max_iterations_reached)

----------------------------------------------------------------------------
(* C4: every call of the generate node asks the model the question the     *)
(* user submitted, also after the question was rewritten.                  *)
C4_GenerateAsksOriginalQuestion ==
    \A i \in CallsOf("generate") : llm_calls[i].question = request.question

(* generate has run while the current question is a rewritten one *)
C4_Witness ==
    /\ LastNode = "generate"
    /\ state.transform_attempts >= 1
    /\ state.question # request.question

----------------------------------------------------------------------------
(* C5: execute_query never raises when no model or retrieval call raises;  *)
(* in particular the executor's step limit is never hit.                   *)
C5_NeverRaises == result.status # "raised"

----------------------------------------------------------------------------
(* C6: at END generation_attempts >= 1 and generation is the output of the *)
(* last generator call of this execution, never the initial empty string.  *)
C6_EndCarriesGeneration ==
    AtEnd => /\ state.generation_attempts >= 1
             /\ generator_calls_made >= 1
             /\ state.generation = generator_calls_made
             /\ state.generation # EmptyGeneration

(* END reached through the no-context fallback after an earlier generation, *)
(* and END reached after a regeneration                                     *)
C6_Witness ==
    /\ AtEnd
    /\ generator_calls_made >= 2
    /\ LastNode \in {"no_docs_fallback", "generate"}

----------------------------------------------------------------------------
(* C7 as claimed: when the hallucination grader never says grounded and    *)
(* every grading keeps documents, then for every max_generation_retries    *)
(* G >= 1 the generator runs exactly G times, then the fallback node runs, *)
(* and the loop ends with max_iterations_reached, fallback_type            *)
(* "max_iterations" and the last generation.                               *)
C7_Scenario ==
    /\ AtEnd
    /\ settings.max_generation_retries >= 1
    /\ NeverGrounded
    /\ AlwaysRelevantDocs

C7_Outcome ==
    /\ Executions("generate") = settings.max_generation_retries
    /\ LastNode = "fallback"
    /\ state.max_iterations_reached
    /\ state.fallback_type = "max_iterations"
    /\ state.generation = generator_calls_made

C7_AsClaimed == C7_Scenario => C7_Outcome

(* C7 amended: the same, provided the other two budgets leave room for G   *)
(* generations: max_transform_retries >= 1, max_total_iterations >= G + 2  *)
(* and G + 3 <= graph_recursion_limit.                                     *)
C7_RoomForGenerations ==
    /\ settings.max_transform_retries >= 1
    /\ settings.max_total_iterations >= settings.max_generation_retries + 2
    /\ settings.max_generation_retries + 3 <= graph_recursion_limit

C7_ExactlyGGenerations == (C7_Scenario /\ C7_RoomForGenerations) => C7_Outcome

(* such an execution with a regeneration has ended *)
C7_Witness ==
    /\ C7_Scenario
    /\ C7_RoomForGenerations
    /\ settings.max_generation_retries >= 2
    /\ CallsOf("hallucination_grader") # {}

----------------------------------------------------------------------------
----------------------------------------------------------------------------
----------------------------------------------------------------------------
(* C10: the fallback node sets max_iterations_reached and fallback_type    *)
(* "max_iterations" and leaves generation, documents, question,            *)
(* original_question and the three counters as generate produced them.     *)
C10_FallbackFrame ==
    [][(pc = "fallback" /\ pc' = "END") =>
          /\ state'.max_iterations_reached
          /\ state'.fallback_type = "max_iterations"
          /\ state'.generation = state.generation
          /\ state'.documents = state.documents
          /\ state'.question = state.question
          /\ state'.original_question = state.original_question
          /\ state'.generation_attempts = state.generation_attempts
          /\ state'.transform_attempts = state.transform_attempts
          /\ state'.total_iterations = state.total_iterations]_vars

(* the fallback node has run on a state with a rewritten question *)
C10_Witness ==
    /\ LastNode = "fallback"
    /\ state.max_iterations_reached
    /\ state.question # state.original_question
    /\ state.generation # EmptyGeneration

----------------------------------------------------------------------------
(* Vocabulary of the end-to-end scenarios *)

(* no grader rejected a generation: the hallucination grader never said    *)
(* not grounded, the answer grader never said no                           *)
NoNegativeVerdict ==
    /\ \A i \in CallsOf("hallucination_grader") : llm_calls[i].verdict = "grounded"
    /\ \A i \in CallsOf("answer_grader") : llm_calls[i].verdict = "yes"

(* the verdicts of the document gradings so far, in order *)
GradingVerdicts ==
    LET idx == CallsOf("grade_documents")
        nth(k) == CHOOSE i \in idx : Cardinality({j \in idx : j <= i}) = k
    IN [k \in 1..Cardinality(idx) |-> llm_calls[nth(k)].verdict]

NormalSuccess ==
    /\ AtEnd
    /\ LastNode = "generate"
    /\ state.fallback_type = ""
    /\ ~state.max_iterations_reached
    /\ ~state.no_relevant_docs_fallback

----------------------------------------------------------------------------
(* C11: under the default budgets, when the first grading keeps documents  *)
(* and the first generation is graded grounded and as addressing the       *)
(* question, the execution is over after [retrieve, grade_documents,       *)
(* generate] with total_iterations = 3, generation_attempts = 1, an empty  *)
(* fallback_type and both fallback flags false.                            *)
C11_Scenario ==
    /\ settings = DefaultSettings
    /\ Len(execution_trace) >= 3
    /\ GradingVerdicts[1] = "relevant"
    /\ \A i \in CallsOf("hallucination_grader") :
          (\A j \in CallsOf("hallucination_grader") : i <= j)
             => llm_calls[i].verdict = "grounded"
    /\ \A i \in CallsOf("answer_grader") :
          (\A j \in CallsOf("answer_grader") : i <= j)
             => llm_calls[i].verdict = "yes"

C11_HappyPath ==
    C11_Scenario =>
        /\ AtEnd
        /\ execution_trace = <<"retrieve", "grade_documents", "generate">>
        /\ state.total_iterations = 3
        /\ state.generation_attempts = 1
        /\ state.fallback_type = ""
        /\ ~state.max_iterations_reached
        /\ ~state.no_relevant_docs_fallback
        /\ CallsOf("answer_grader") # {}
        /\ result.status = "returned" =>
              /\ result.total_iterations = 3
              /\ result.generation_attempts = 1
              /\ result.disclaimer = None

(* the happy path was taken with two documents kept, and returned *)
C11_Witness ==
    /\ C11_Scenario
    /\ Len(state.documents) = 2
    /\ result.status = "returned"

----------------------------------------------------------------------------
(* C12 as claimed: when the first grading keeps no document, the second    *)
(* grading (after one rewrite) keeps documents and no grader rejects the   *)
(* generation, the loop ends in normal success with transform_attempts = 1 *)
(* and the trace [retrieve, grade_documents, transform_query, retrieve,    *)
(* grade_documents, generate], whatever the budgets are.                   *)
C12_Scenario ==
    /\ Len(GradingVerdicts) >= 2
    /\ GradingVerdicts[1] = "none"
    /\ GradingVerdicts[2] = "relevant"
    /\ NoNegativeVerdict

C12_Outcome ==
    /\ NormalSuccess
    /\ state.transform_attempts = 1
    /\ execution_trace = <<"retrieve", "grade_documents", "transform_query",
                           "retrieve", "grade_documents", "generate">>

C12_AsClaimed == (AtEnd /\ C12_Scenario) => C12_Outcome

(* C12 amended: the same, when the budgets leave the first generation to   *)
(* the graders: max_generation_retries >= 2, max_transform_retries >= 2    *)
(* and max_total_iterations >= 7, as the defaults do.  Then the sixth node *)
(* is the last one.                                                        *)
C12_RoomForGrading ==
    /\ settings.max_generation_retries >= 2
    /\ settings.max_transform_retries >= 2
    /\ settings.max_total_iterations >= 7

C12_RewriteThenSucceed ==
    (C12_Scenario /\ C12_RoomForGrading /\ Len(execution_trace) >= 6)
        => C12_Outcome

(* the rewrite-then-succeed run has ended, the answer grader having        *)
(* accepted an answer to the rewritten question                            *)
C12_Witness ==
    /\ C12_Scenario
    /\ C12_RoomForGrading
    /\ AtEnd
    /\ state.question # state.original_question
    /\ CallsOf("answer_grader") # {}

----------------------------------------------------------------------------
(* C13: after every generate node, if generation_attempts >=               *)
(* max_generation_retries or transform_attempts >= max_transform_retries   *)
(* or total_iterations >= max_total_iterations, the next node is fallback  *)
(* and no grader was invoked for that generation: the generator call is    *)
(* the last entry of the call log.                                         *)
C13_BudgetReached ==
    \/ state.generation_attempts >= settings.max_generation_retries
    \/ state.transform_attempts >= settings.max_transform_retries
    \/ state.total_iterations >= settings.max_total_iterations

C13_BudgetCheckFirst ==
    (LastNode = "generate" /\ C13_BudgetReached) =>
        /\ pc = "fallback"
        /\ llm_calls[Len(llm_calls)].kind = "generate"

(* generate ran with only the rewrite budget used up, and on documents *)
C13_Witness ==
    /\ LastNode = "generate"
    /\ pc = "fallback"
    /\ state.documents # <<>>
    /\ state.transform_attempts >= 1
    /\ state.transform_attempts >= settings.max_transform_retries
    /\ state.generation_attempts < settings.max_generation_retries
    /\ state.total_iterations < settings.max_total_iterations

----------------------------------------------------------------------------
(* C14: document grading keeps a document if and only if its verdict is    *)
(* relevant ("yes") and its confidence is >= the confidence threshold, for *)
(* every document and every threshold: relevant below the threshold is     *)
(* dropped, relevant at or above it is kept, not relevant is dropped at    *)
(* any confidence.  The kept documents keep their order.                   *)
C14_Kept(i) ==
    \E j \in 1..Len(grader_run.filtered_docs) :
        grader_run.filtered_docs[j] = grader_run.documents[i]

C14_ConfidenceGate ==
    grader_run.op = "grade_documents" =>
        /\ \A i \in 1..Len(grader_run.documents) :
              LET score == grader_run.scores[i]
              IN C14_Kept(i) <=>
                    /\ ~score.error
                    /\ score.binary_score = "yes"
                    /\ score.confidence >= grader_run.confidence_threshold
        /\ \A j, k \in 1..Len(grader_run.filtered_docs) :
              j < k => grader_run.filtered_docs[j] < grader_run.filtered_docs[k]

(* at threshold 0.6, (yes, 0.59) was dropped and (yes, 0.60) was kept *)
C14_Witness ==
    /\ grader_run.op = "grade_documents"
    /\ grader_run.confidence_threshold = document_grading_confidence_threshold
    /\ Len(grader_run.documents) = 2
    /\ grader_run.scores[1].binary_score = "yes"
    /\ grader_run.scores[1].confidence = document_grading_confidence_threshold - 1
    /\ ~grader_run.scores[1].error
    /\ grader_run.scores[2].binary_score = "yes"
    /\ grader_run.scores[2].confidence = document_grading_confidence_threshold
    /\ grader_run.filtered_docs = <<2>>

----------------------------------------------------------------------------
(* C15: the hallucination grader sends the batches to the model in order   *)
(* and stops at the first batch whose verdict is grounded: the number of   *)
(* model calls equals the index of the first grounded batch, and no batch  *)
(* after it is sent.  With no grounded batch every batch is sent once.     *)
C15_FirstGrounded ==
    LET yes == {b \in 1..NumBatches(grader_run.documents) :
                    grader_run.verdicts[b] = "yes"}
    IN IF yes = {} THEN 0 ELSE CHOOSE b \in yes : \A c \in yes : b <= c

C15_StopsAtFirstGroundedBatch ==
    grader_run.op = "grade_hallucination" =>
        LET calls == grader_run.calls
        IN /\ \A i \in 1..Len(calls) :
                 /\ calls[i].batch_num = i
                 /\ calls[i].documents = doc_batch(grader_run.documents, i)
                 /\ calls[i].documents # <<>>
           /\ C15_FirstGrounded # 0 => Len(calls) <= C15_FirstGrounded
           /\ grader_run.returned =>
                 /\ grader_run.is_grounded = (C15_FirstGrounded # 0)
                 /\ Len(calls) = IF C15_FirstGrounded # 0
                                 THEN C15_FirstGrounded
                                 ELSE NumBatches(grader_run.documents)
                 /\ grader_run.is_grounded =
                       grade_hallucination(grader_run.documents, grader_run.verdicts)
                 /\ Len(calls) =
                       hallucination_calls(grader_run.documents, grader_run.verdicts)

(* of three batches the second was the first grounded one; the third,      *)
(* which would also have been grounded, was not sent                       *)
C15_Witness ==
    /\ grader_run.op = "grade_hallucination"
    /\ grader_run.returned
    /\ grader_run.is_grounded
    /\ NumBatches(grader_run.documents) = 3
    /\ grader_run.verdicts[3] = "yes"
    /\ Len(grader_run.calls) = 2

----------------------------------------------------------------------------
(* C16: total_iterations increases by exactly 1 on every node execution,   *)
(* the fallback node included, so at END total_iterations equals the       *)
(* number of nodes in the execution trace.                                 *)
C16_TotalCountsNodes ==
    AtEnd => state.total_iterations = Len(execution_trace)

----------------------------------------------------------------------------
(* C17: from one node to the next generation_attempts, transform_attempts  *)
(* and total_iterations never decrease; generation_attempts changes only   *)
(* in a node that runs the generator (generate, no_docs_fallback) and      *)
(* transform_attempts only in transform_query.                             *)
C17_CountersMonotone ==
    [][/\ state'.generation_attempts >= state.generation_attempts
       /\ state'.transform_attempts >= state.transform_attempts
       /\ state'.total_iterations >= state.total_iterations
       /\ state'.generation_attempts # state.generation_attempts
             => pc \in {"generate", "no_docs_fallback"}
       /\ state'.transform_attempts # state.transform_attempts
             => pc = "transform_query"]_vars

----------------------------------------------------------------------------
(* C18: original_question is set once, when the loop is entered, to the    *)
(* question of the request, and has that value in every state: no node     *)
(* changes it.                                                             *)
C18_OriginalQuestionKept ==
    state.original_question = request.question

(* every node has run, and the question was rewritten to another text *)
C18_Witness ==
    /\ AtEnd
    /\ state.question # request.question
    /\ LastNode \in {"fallback", "no_docs_fallback"}
    /\ Executions("generate") >= 1
    /\ Executions("transform_query") >= 1

----------------------------------------------------------------------------
(* C19: after grade_documents the next node is generate if the filtered    *)
(* document list is non-empty, transform_query if it is empty and          *)
(* transform_attempts < max_transform_retries, no_docs_fallback if it is   *)
(* empty and transform_attempts >= max_transform_retries; neither          *)
(* generation_attempts nor total_iterations takes part in the choice.      *)
C19_RouteAfterGrading ==
    LastNode = "grade_documents" =>
        pc = IF state.documents # <<>> THEN "generate"
             ELSE IF state.transform_attempts < settings.max_transform_retries
                  THEN "transform_query"
                  ELSE "no_docs_fallback"

(* a second rewrite was chosen although the other two budgets were used   *)
(* up                                                                      *)
C19_Witness ==
    /\ LastNode = "grade_documents"
    /\ pc = "transform_query"
    /\ state.transform_attempts >= 1
    /\ state.generation_attempts >= settings.max_generation_retries
    /\ state.total_iterations >= settings.max_total_iterations

----------------------------------------------------------------------------
(* C20: after generate, when no budget is reached: not grounded -> generate *)
(* again on the same documents; grounded and addressing the question ->    *)
(* END; grounded and not addressing it -> transform_query if               *)
(* transform_attempts < max_transform_retries, otherwise END, and not the  *)
(* fallback node.                                                          *)
C20_GraderCalls == SubSeq(llm_calls', Len(llm_calls) + 2, Len(llm_calls'))

C20_RouteAfterGenerate ==
    [][(/\ pc = "generate"
        /\ execution_trace' # execution_trace
        /\ state'.generation_attempts < settings.max_generation_retries
        /\ state'.transform_attempts < settings.max_transform_retries
        /\ state'.total_iterations < settings.max_total_iterations)
       => /\ Len(C20_GraderCalls) >= 1
          /\ C20_GraderCalls[1].kind = "hallucination_grader"
          /\ IF C20_GraderCalls[1].verdict = "not_grounded"
             THEN /\ pc' = "generate"
                  /\ state'.documents = state.documents
                  /\ Len(C20_GraderCalls) = 1
             ELSE /\ Len(C20_GraderCalls) = 2
                  /\ C20_GraderCalls[2].kind = "answer_grader"
                  /\ pc' = IF C20_GraderCalls[2].verdict = "yes" THEN "END"
                           ELSE IF state'.transform_attempts
                                      < settings.max_transform_retries
                                THEN "transform_query"
                                ELSE "END"]_vars

(* a regeneration was graded grounded but as not addressing the question,  *)
(* and a rewrite follows                                                   *)
C20_Witness ==
    /\ LastNode = "generate"
    /\ pc = "transform_query"
    /\ Executions("generate") >= 2
    /\ state.generation_attempts < settings.max_generation_retries
    /\ state.total_iterations < settings.max_total_iterations

----------------------------------------------------------------------------
(* C21: the no-context fallback asks the model the user's initial          *)
(* question, not the rewritten one, in every execution that reaches        *)
(* no_docs_fallback after one or more rewrites.                            *)
C21_NoDocsFallbackAsksOriginal ==
    \A i \in CallsOf("no_docs_generate") :
        llm_calls[i].question = request.question

----------------------------------------------------------------------------
(* C22: the answer grader judges the answer against the original question, *)
(* not the rewritten one, in every execution with at least one rewrite.    *)
C22_AnswerGraderJudgesOriginal ==
    \A i \in CallsOf("answer_grader") :
        llm_calls[i].question = request.question

----------------------------------------------------------------------------
(* C23: the temperature generate uses on attempt N is the temperature the  *)
(* caller submitted on attempt 1 or with escalation disabled, and          *)
(* min(base + (N-1) * retry_temperature_increment, 1.0) on attempt N >= 2  *)
(* with escalation enabled, base being the submitted temperature.          *)
C23_TemperatureOfAttempt ==
    LastNode = "generate" =>
        LET N == state.generation_attempts
            base == request.model_config.temperature
        IN state.model_config.temperature =
              IF N >= 2 /\ settings.enable_retry_variation
              THEN Min(base + (N - 1) * retry_temperature_increment, 100)
              ELSE base

----------------------------------------------------------------------------
(* C28: the retrieve node returns also when the retrieval backend fails:   *)
(* then the document list is empty, total_iterations is one more,          *)
(* question, original_question, generation, generation_attempts and        *)
(* transform_attempts are as they were, and grade_documents is next.       *)
C28_RetrieveSurvivesFailure ==
    (grader_run.op = "retrieve" /\ ~grader_run.backend_ok) =>
        /\ grader_run.returned
        /\ grader_run.output.documents = <<>>
        /\ grader_run.output.total_iterations
              = grader_run.input.total_iterations + 1
        /\ grader_run.output.question = grader_run.input.question
        /\ grader_run.output.original_question
              = grader_run.input.original_question
        /\ grader_run.output.generation = grader_run.input.generation
        /\ grader_run.output.generation_attempts
              = grader_run.input.generation_attempts
        /\ grader_run.output.transform_attempts
              = grader_run.input.transform_attempts
        /\ grader_run.next_node = "grade_documents"

(* the backend failed in a later cycle, on a rewritten question, with the  *)
(* documents of the cycle before still in the state                        *)
C28_Witness ==
    /\ grader_run.op = "retrieve"
    /\ ~grader_run.backend_ok
    /\ grader_run.input.documents # <<>>
    /\ grader_run.input.question # grader_run.input.original_question
    /\ grader_run.input.generation_attempts >= 1

----------------------------------------------------------------------------
(* C29: transform_query increments transform_attempts and total_iterations *)
(* by exactly 1, replaces question with the rewriter output, and leaves    *)
(* original_question, generation, generation_attempts, documents and       *)
(* collection_ids unchanged.                                               *)
C29_TransformQueryFrame ==
    grader_run.op = "transform_query" =>
        /\ grader_run.output.transform_attempts
              = grader_run.input.transform_attempts + 1
        /\ grader_run.output.total_iterations
              = grader_run.input.total_iterations + 1
        /\ grader_run.output.question = grader_run.better_question
        /\ grader_run.output.original_question
              = grader_run.input.original_question
        /\ grader_run.output.generation = grader_run.input.generation
        /\ grader_run.output.generation_attempts
              = grader_run.input.generation_attempts
        /\ grader_run.output.documents = grader_run.input.documents
        /\ grader_run.output.collection_ids = grader_run.input.collection_ids

(* a second rewrite, after a generation on documents, to a new text *)
C29_Witness ==
    /\ grader_run.op = "transform_query"
    /\ grader_run.input.transform_attempts >= 1
    /\ grader_run.input.generation # EmptyGeneration
    /\ grader_run.input.documents # <<>>
    /\ grader_run.input.collection_ids # <<>>
    /\ grader_run.output.question # grader_run.input.question

----------------------------------------------------------------------------
(* C30: the documents field is changed only by retrieve and                *)
(* grade_documents; generate with its graders, transform_query and the two *)
(* fallback nodes leave it as it is; grade_documents replaces it with a    *)
(* sub-list of the retrieved documents.                                    *)
C30_SubList(sub, list) ==
    /\ \A j \in 1..Len(sub) : \E i \in 1..Len(list) : sub[j] = list[i]
    /\ \A j, k \in 1..Len(sub) : j < k => sub[j] < sub[k]

C30_DocumentsFrame ==
    [][/\ state'.documents # state.documents
             => pc \in {"retrieve", "grade_documents"}
       /\ (pc = "grade_documents" /\ execution_trace' # execution_trace)
             => C30_SubList(state'.documents, state.documents)]_vars

(* the no-context fallback, which returns an empty document list, ran     *)
(* after an earlier generation on documents                                *)
C30_Witness ==
    /\ LastNode = "no_docs_fallback"
    /\ Executions("generate") >= 1
    /\ Executions("grade_documents") >= 2

----------------------------------------------------------------------------
(* Vocabulary of the document-grading run *)

Task(i) == grader_run.tasks[i]

LastCall(i) == Task(i).calls[Len(Task(i).calls)]

Filtered(i) ==
    \E j \in 1..Len(grader_run.filtered_docs) :
        grader_run.filtered_docs[j] = grader_run.documents[i]

GradingOver == grader_run.op = "grade_all_docs" /\ grader_run.returned

----------------------------------------------------------------------------
(* C24: a grading failure on one document (an exception, or the retries    *)
(* exhausted) drops only that document: grade_documents still returns, the *)
(* failed document is not in the filtered list, and every other document   *)
(* is kept or dropped by its own verdict, as without the failure.          *)
C24_FailureDropsOnlyThatDocument ==
    /\ (grader_run.op = "grade_all_docs" /\ ~ENABLED GradingNext)
          => grader_run.returned
    /\ GradingOver =>
          \A i \in 1..Len(grader_run.documents) :
             IF Task(i).result = "error"
             THEN ~Filtered(i)
             ELSE /\ LastCall(i).raised = "none"
                  /\ Filtered(i) <=>
                        /\ LastCall(i).score.binary_score = "yes"
                        /\ LastCall(i).score.confidence
                              >= grader_run.confidence_threshold

(* of three documents the second failed to be graded and the two around it *)
(* were kept                                                               *)
C24_Witness ==
    /\ GradingOver
    /\ Len(grader_run.documents) = 3
    /\ Task(2).result = "error"
    /\ Task(2).calls # <<>>
    /\ grader_run.filtered_docs = <<1, 3>>

----------------------------------------------------------------------------
(* C25: the grading of one document is retried up to K =                   *)
(* document_grading_retry_attempts times and only after a transient        *)
(* transport failure; a non-transient error is never retried; a call that  *)
(* succeeds within K retries decides the document, so a document is given  *)
(* up for transient failures only after the first call and K retries.      *)
C25_RetriedUpToK ==
    grader_run.op = "grade_all_docs" =>
        \A i \in 1..Len(grader_run.documents) :
           /\ Len(Task(i).calls) <= grader_run.retry_attempts + 1
           /\ \A c \in 1..(Len(Task(i).calls) - 1) :
                 Task(i).calls[c].raised = "tcp_closed"
           /\ (Task(i).status = "done" /\ Task(i).result # "error")
                 => LastCall(i).raised = "none"
           /\ (/\ Task(i).status = "done"
               /\ Task(i).result = "error"
               /\ \A c \in 1..Len(Task(i).calls) :
                     Task(i).calls[c].raised = "tcp_closed")
                 => Len(Task(i).calls) = grader_run.retry_attempts + 1

----------------------------------------------------------------------------
(* C26: during grade_documents at most document_grading_batch_size grading *)
(* calls are in flight at any time, no call of a later batch starts before *)
(* every call of the earlier batches has finished, and the step returns    *)
(* only after every document has a result.                                 *)
C26_InFlight ==
    {i \in 1..Len(grader_run.documents) : Task(i).status = "calling"}

C26_BoundedFanOut ==
    grader_run.op = "grade_all_docs" =>
        /\ Cardinality(C26_InFlight) <= grader_run.batch_size
        /\ \A i, j \in 1..Len(grader_run.documents) :
              (/\ (i - 1) \div grader_run.batch_size
                    < (j - 1) \div grader_run.batch_size
               /\ Task(j).status # "pending")
                 => Task(i).status = "done"
        /\ grader_run.returned =>
              /\ \A i \in 1..Len(grader_run.documents) :
                    Task(i).status = "done" /\ Task(i).result # "none"
              /\ Len(grader_run.all_results) = Len(grader_run.documents)
              /\ \A i \in 1..Len(grader_run.documents) :
                    /\ grader_run.all_results[i].doc = grader_run.documents[i]
                    /\ grader_run.all_results[i].result = Task(i).result

(* two calls of the first batch are in flight, one of them a retry, while  *)
(* the third document waits for its batch                                  *)
C26_Witness ==
    /\ grader_run.op = "grade_all_docs"
    /\ Len(grader_run.documents) = 3
    /\ grader_run.batch_size = 2
    /\ Cardinality(C26_InFlight) = 2
    /\ Task(1).attempt = 1
    /\ Task(3).status = "pending"

----------------------------------------------------------------------------
(* C27: the hallucination verdict is not grounded only if every batch was  *)
(* checked and returned not grounded; a batch whose call raises is skipped *)
(* without stopping the check, so a grounded verdict of a later batch      *)
(* still gives grounded.                                                   *)
C27_NotGroundedOnlyIfAllRejected ==
    (grader_run.op = "grade_hallucination" /\ grader_run.returned) =>
        /\ ~grader_run.is_grounded =>
              /\ Len(grader_run.calls) = NumBatches(grader_run.documents)
              /\ \A b \in 1..NumBatches(grader_run.documents) :
                    grader_run.verdicts[b] = "no"
        /\ (\E b \in 1..NumBatches(grader_run.documents) :
                grader_run.verdicts[b] = "yes") => grader_run.is_grounded

----------------------------------------------------------------------------
(* C31: no_relevant_docs_fallback is true only when the last executed node *)
(* is no_docs_fallback, every other node leaves it false, and              *)
(* fallback_type is "no_relevant_docs" exactly when the flag is true.      *)
C31_NoDocsFlagOnlyAfterNoDocsFallback ==
    /\ state.no_relevant_docs_fallback <=> LastNode = "no_docs_fallback"
    /\ LastNode \in {"retrieve", "grade_documents", "generate",
                     "transform_query", "fallback"}
          => ~state.no_relevant_docs_fallback
    /\ state.fallback_type = "no_relevant_docs"
          <=> state.no_relevant_docs_fallback

(* the no-context fallback ran after an answer had been generated and      *)
(* rejected                                                                *)
C31_Witness ==
    /\ state.no_relevant_docs_fallback
    /\ state.fallback_type = "no_relevant_docs"
    /\ LastNode = "no_docs_fallback"
    /\ Executions("generate") >= 1

----------------------------------------------------------------------------
(* C34: a normal-success END is reached only with generation_attempts < G, *)
(* transform_attempts < T and total_iterations < M; a generation made on   *)
(* the last permitted attempt, or after the last permitted rewrite, goes   *)
(* to the fallback node whatever the graders would say.                    *)
C34_SuccessOnlyBelowBudgets ==
    /\ NormalSuccess =>
          /\ state.generation_attempts < settings.max_generation_retries
          /\ state.transform_attempts < settings.max_transform_retries
          /\ state.total_iterations < settings.max_total_iterations
    /\ (/\ LastNode = "generate"
        /\ \/ state.generation_attempts >= settings.max_generation_retries
           \/ state.transform_attempts >= settings.max_transform_retries)
          => pc = "fallback"

(* success with one generation and one rewrite to spare *)
C34_Witness ==
    /\ NormalSuccess
    /\ state.generation_attempts + 1 = settings.max_generation_retries
    /\ state.transform_attempts + 1 = settings.max_transform_retries
    /\ state.transform_attempts >= 1

----------------------------------------------------------------------------
(* C35: an answer that reaches END without a fallback flag is the latest   *)
(* generation, and the hallucination grader judged it grounded and the     *)
(* answer grader judged it as addressing the question: the last three      *)
(* model calls are that generation and the two positive verdicts.          *)
C35_SuccessWasGraded ==
    (AtEnd /\ ~state.max_iterations_reached /\ ~state.no_relevant_docs_fallback)
       => LET n == Len(llm_calls)
          IN /\ n >= 3
             /\ llm_calls[n - 2].kind = "generate"
             /\ llm_calls[n - 1].kind = "hallucination_grader"
             /\ llm_calls[n - 1].verdict = "grounded"
             /\ llm_calls[n].kind = "answer_grader"
             /\ llm_calls[n].verdict = "yes"
             /\ state.generation = generator_calls_made

(* returned without a flag after an earlier answer had been rejected *)
C35_Witness ==
    /\ result.status = "returned"
    /\ ~result.max_iterations_reached
    /\ ~result.no_relevant_docs_fallback
    /\ \E i \in CallsOf("answer_grader") : llm_calls[i].verdict = "no"

----------------------------------------------------------------------------
(* C36: with G >= 1 an execution of the loop runs at most 3*T + G + 3      *)
(* nodes, whatever the total budget is; for the default budgets that is    *)
(* 11 nodes, below the default recursion limit.                            *)
C36_NodeBound ==
    /\ settings.max_generation_retries >= 1 =>
          Len(execution_trace) <= 3 * settings.max_transform_retries
                                  + settings.max_generation_retries + 3
    /\ settings = DefaultSettings => Len(execution_trace) <= 11
    /\ 3 * default_max_transform_retries + default_max_generation_retries + 3
          = 11
    /\ 11 < graph_recursion_limit

(* the default budgets, spent to the last node *)
C36_Witness ==
    /\ settings = DefaultSettings
    /\ AtEnd
    /\ Len(execution_trace) = 11

----------------------------------------------------------------------------
(* C37: transform_attempts never exceeds T and, when G >= 1,               *)
(* generation_attempts never exceeds G; the rewriter is not run with a     *)
(* spent rewrite budget nor the generate node with a spent generation      *)
(* budget.                                                                 *)
C37_AttemptsWithinBudgets ==
    /\ state.transform_attempts <= settings.max_transform_retries
    /\ pc = "transform_query"
          => state.transform_attempts < settings.max_transform_retries
    /\ settings.max_generation_retries >= 1 =>
          /\ state.generation_attempts <= settings.max_generation_retries
          /\ pc = "generate"
                => state.generation_attempts < settings.max_generation_retries

(* both budgets are spent exactly *)
C37_Witness ==
    /\ settings.max_generation_retries >= 2
    /\ settings.max_transform_retries >= 2
    /\ state.generation_attempts = settings.max_generation_retries
    /\ state.transform_attempts = settings.max_transform_retries
    /\ LastNode = "generate"

----------------------------------------------------------------------------
(* C38: the disclaimer of the returned result follows the exit path: none  *)
(* exactly after normal success, the knowledge-base disclaimer exactly     *)
(* after no_docs_fallback, the not-verified disclaimer exactly after the   *)
(* fallback node.                                                          *)
C38_DisclaimerByExitPath ==
    result.status = "returned" =>
        /\ result.disclaimer = None <=> NormalSuccess
        /\ result.disclaimer = NoDocsDisclaimer
              <=> LastNode = "no_docs_fallback"
        /\ result.disclaimer = NotVerifiedDisclaimer
              <=> LastNode = "fallback"

(* a result returned through no_docs_fallback, both flags set *)
C38_Witness ==
    /\ result.status = "returned"
    /\ LastNode = "no_docs_fallback"
    /\ result.max_iterations_reached
    /\ result.no_relevant_docs_fallback
    /\ result.disclaimer = NoDocsDisclaimer

----------------------------------------------------------------------------
(* The batch-query job: services/job_manager.py (JobManager),              *)
(* api/routes/batch_queries.py (start, cancel and delete routes, the       *)
(* background task) and services/batch_query_service.py                    *)
(* (_process_batch_async).  One job is started; the background task works  *)
(* through its questions while a client may cancel or delete the job at    *)
(* any moment.  The task is suspended while a question is executed, and    *)
(* between the return of the batch and complete_job.  The batch runs in a  *)
(* thread of its own (run_in_executor), the routes in the event loop, and  *)
(* JobManager takes no lock: a DELETE request can remove the job between   *)
(* the membership test of update_progress and its update, which then       *)
(* raises KeyError into the batch loop.                                    *)

MaxQuestions == 2

QuestionIdLists == {[i \in 1..n |-> i] : n \in 1..MaxQuestions}

(* GraphType has three values; graph_types may be left empty *)
GraphTypeLists == {<<>>, <<"adaptive_rag">>, <<"simple_rag", "pure_llm">>}

JobIds == {"job"}

RUNNING == "running"
COMPLETED == "completed"
FAILED == "failed"
CANCELLED == "cancelled"

(* graph_types or [GraphType.ADAPTIVE_RAG] *)
default_graph_types(graph_types) ==
    IF graph_types = <<>> THEN <<"adaptive_rag">> ELSE graph_types

create_job(jobs, job_id, parameters, progress_fields) ==
    (job_id :> [job_id |-> job_id,
                status |-> RUNNING,
                completed_at |-> FALSE,
                progress |-> progress_fields,
                parameters |-> parameters,
                results |-> <<>>,
                error |-> ""]) @@ jobs

update_progress(jobs, job_id, progress) ==
    IF job_id \in DOMAIN jobs
    THEN [jobs EXCEPT
            ![job_id].progress = progress @@ jobs[job_id].progress,
            ![job_id].results =
                IF "result" \in DOMAIN progress
                THEN Append(jobs[job_id].results, progress.result)
                ELSE jobs[job_id].results]
    ELSE jobs

complete_job(jobs, job_id) ==
    IF job_id \in DOMAIN jobs
    THEN [jobs EXCEPT ![job_id].status = COMPLETED,
                      ![job_id].completed_at = TRUE]
    ELSE jobs

fail_job(jobs, job_id, error) ==
    IF job_id \in DOMAIN jobs
    THEN [jobs EXCEPT ![job_id].status = FAILED,
                      ![job_id].completed_at = TRUE,
                      ![job_id].error = error]
    ELSE jobs

(* cancel_job: what it returns, and what it leaves in _jobs *)
cancel_job_returns(jobs, job_id) ==
    job_id \in DOMAIN jobs /\ jobs[job_id].status = RUNNING

cancel_job(jobs, job_id) ==
    IF cancel_job_returns(jobs, job_id)
    THEN [jobs EXCEPT ![job_id].status = CANCELLED,
                      ![job_id].completed_at = TRUE]
    ELSE jobs

delete_job_returns(jobs, job_id) ==
    job_id \in DOMAIN jobs /\ jobs[job_id].status # RUNNING

delete_job(jobs, job_id) ==
    IF delete_job_returns(jobs, job_id)
    THEN [j \in DOMAIN jobs \ {job_id} |-> jobs[j]]
    ELSE jobs

(* sum(1 for r in results if r["status"] == status) *)
count_status(results, status) ==
    Cardinality({k \in 1..Len(results) : results[k].status = status})

total_runs(task) == Len(task.question_ids) * Len(task.graph_types)

(* the question and the graph type of the loop iteration after run         *)
(* finished ones: for question_id in .. : for graph_type in ..             *)
current_question_id(task) ==
    task.question_ids[(task.run \div Len(task.graph_types)) + 1]

current_graph_type(task) ==
    task.graph_types[(task.run % Len(task.graph_types)) + 1]

(* the dictionaries handed to progress_callback *)
progress_before(task) ==
    [processed |-> task.processed_count,
     current_question_id |-> current_question_id(task)]

progress_after(task, results, completed) ==
    [processed |-> task.processed_count + 1,
     successful |-> count_status(results, "success"),
     failed |-> count_status(results, "failed"),
     skipped |-> count_status(results, "skipped"),
     current_question_id |-> 0,
     result |-> completed]

progress_after_exception(task, results, failed_result) ==
    [processed |-> task.processed_count + 1,
     successful |-> count_status(results, "success"),
     failed |-> count_status(results, "failed"),
     skipped |-> count_status(results, "skipped"),
     result |-> failed_result]

(* what _process_single_question gives: its result, or an exception *)
QuestionOutcomes == {"success", "failed", "skipped", "raised"}

question_result(task, outcome) ==
    [question_id |-> current_question_id(task),
     graph_type |-> current_graph_type(task),
     status |-> IF outcome = "raised" THEN "failed" ELSE outcome]

ServiceInit ==
    /\ settings = DefaultSettings
    /\ request \in [question : UserQuestions,
                    model_config : [temperature : BaseTemperatures],
                    collection_ids : CollectionIds]
    /\ state = initial_state(request)
    /\ pc = "retrieve"
    /\ execution_trace = <<>>
    /\ llm_calls = <<>>
    /\ result = NoResult
    /\ grader_run = NoGraderRun
    /\ ServicesIdle

(* POST /batch-queries: create_job, then the background task is scheduled *)
StartBatchQuery ==
    /\ batch_task.pc = "none"
    /\ \E job_id \in JobIds, question_ids \in QuestionIdLists,
          graph_types \in GraphTypeLists :
          /\ _jobs' = create_job(_jobs, job_id,
                 [question_ids |-> question_ids, graph_types |-> graph_types],
                 [total_questions |-> Len(question_ids)
                                      * Len(default_graph_types(graph_types)),
                  processed |-> 0, successful |-> 0, failed |-> 0,
                  skipped |-> 0, current_question_id |-> 0])
          /\ batch_task' = [NoBatchTask EXCEPT !.pc = "scheduled",
                                               !.job_id = job_id,
                                               !.question_ids = question_ids,
                                               !.graph_types = graph_types]
    /\ UNCHANGED <<loop_vars, grader_run, cancel_request, db>>

(* progress_callback, i.e. JobManager.update_progress from the thread of   *)
(* the batch; deleted_meanwhile: the job is deleted after the membership   *)
(* test, and the call raises                                               *)
progress_callback(jobs, job_id, progress, deleted_meanwhile) ==
    IF deleted_meanwhile THEN delete_job(jobs, job_id)
    ELSE update_progress(jobs, job_id, progress)

(* a DELETE request could delete the job now *)
may_be_deleted(jobs, job_id) == delete_job_returns(jobs, job_id)

(* _process_batch_async up to the loop *)
BatchBegins ==
    /\ batch_task.pc = "scheduled"
    /\ batch_task' =
          [batch_task EXCEPT !.pc = "loop",
                             !.graph_types = default_graph_types(@),
                             !.results = <<>>,
                             !.processed_count = 0,
                             !.run = 0]
    /\ UNCHANGED <<loop_vars, grader_run, _jobs, cancel_request, db>>

(* an exception that leaves process_batch_sync (no database session) *)
BatchRaises ==
    /\ batch_task.pc = "scheduled"
    /\ batch_task' = [batch_task EXCEPT !.pc = "raised"]
    /\ UNCHANGED <<loop_vars, grader_run, _jobs, cancel_request, db>>

(* the except branch of the loop body: a failed result for the pair, sent  *)
(* to progress_callback; an exception of that call leaves the loops        *)
ExceptBranch(task, jobs) ==
    LET failed_result == question_result(task, "raised")
        results == Append(task.results, failed_result)
        counted == [task EXCEPT !.results = results,
                                !.processed_count = @ + 1]
    IN \E deleted_meanwhile \in BOOLEAN :
          /\ deleted_meanwhile => may_be_deleted(jobs, task.job_id)
          /\ _jobs' = progress_callback(jobs, task.job_id,
                 progress_after_exception(task, results, failed_result),
                 deleted_meanwhile)
          /\ batch_task' =
                IF deleted_meanwhile
                THEN [counted EXCEPT !.pc = "raised"]
                ELSE [counted EXCEPT !.pc = "loop", !.run = @ + 1]

(* the loop body up to the await of _process_single_question; the title    *)
(* lookup and the progress callback before it may raise                    *)
StartQuestion ==
    /\ batch_task.pc = "loop"
    /\ batch_task.run < total_runs(batch_task)
    /\ \E lookup_ok \in BOOLEAN, deleted_meanwhile \in BOOLEAN :
          /\ deleted_meanwhile =>
                lookup_ok /\ may_be_deleted(_jobs, batch_task.job_id)
          /\ IF lookup_ok /\ ~deleted_meanwhile
             THEN /\ _jobs' = progress_callback(_jobs, batch_task.job_id,
                                   progress_before(batch_task), FALSE)
                  /\ batch_task' = [batch_task EXCEPT !.pc = "processing"]
             ELSE ExceptBranch(batch_task,
                      IF lookup_ok
                      THEN progress_callback(_jobs, batch_task.job_id,
                               progress_before(batch_task), TRUE)
                      ELSE _jobs)
    /\ UNCHANGED <<loop_vars, grader_run, cancel_request, db>>

(* _process_single_question is over: the rest of the loop body *)
FinishQuestion ==
    /\ batch_task.pc = "processing"
    /\ \E outcome \in QuestionOutcomes, deleted_meanwhile \in BOOLEAN :
          /\ deleted_meanwhile =>
                /\ outcome # "raised"
                /\ may_be_deleted(_jobs, batch_task.job_id)
          /\ IF outcome = "raised"
             THEN ExceptBranch(batch_task, _jobs)
             ELSE LET completed == question_result(batch_task, outcome)
                      results == Append(batch_task.results, completed)
                      counted == [batch_task EXCEPT
                                     !.results = results,
                                     !.processed_count = @ + 1]
                      jobs == progress_callback(_jobs, batch_task.job_id,
                                  progress_after(batch_task, results, completed),
                                  deleted_meanwhile)
                  IN IF deleted_meanwhile
                     THEN ExceptBranch(counted, jobs)
                     ELSE /\ _jobs' = jobs
                          /\ batch_task' = [counted EXCEPT !.pc = "loop",
                                                           !.run = @ + 1]
    /\ UNCHANGED <<loop_vars, grader_run, cancel_request, db>>

(* the loops are over: _process_batch_async returns its summary *)
ReturnBatch ==
    /\ batch_task.pc = "loop"
    /\ batch_task.run >= total_runs(batch_task)
    /\ batch_task' =
          [batch_task EXCEPT
              !.pc = "returned",
              !.summary =
                  [total |-> total_runs(batch_task),
                   successful |-> count_status(batch_task.results, "success"),
                   failed |-> count_status(batch_task.results, "failed"),
                   skipped |-> count_status(batch_task.results, "skipped")]]
    /\ UNCHANGED <<loop_vars, grader_run, _jobs, cancel_request, db>>

(* batch_task: manager.complete_job(job_id) *)
CompleteJob ==
    /\ batch_task.pc = "returned"
    /\ _jobs' = complete_job(_jobs, batch_task.job_id)
    /\ batch_task' = [batch_task EXCEPT !.pc = "completed"]
    /\ UNCHANGED <<loop_vars, grader_run, cancel_request, db>>

(* batch_task: except Exception: manager.fail_job(job_id, str(e)) *)
FailJob ==
    /\ batch_task.pc = "raised"
    /\ _jobs' = fail_job(_jobs, batch_task.job_id, "error")
    /\ batch_task' = [batch_task EXCEPT !.pc = "failed"]
    /\ UNCHANGED <<loop_vars, grader_run, cancel_request, db>>

(* the iterations of the batch loop begun so far *)
runs_begun ==
    batch_task.run
    + (IF batch_task.pc = "processing" THEN 1 ELSE 0)

(* POST /batch-queries/{job_id}/cancel, asked once *)
CancelBatchQueryJob ==
    /\ batch_task.pc # "none"
    /\ cancel_request.status_code = ""
    /\ \E job_id \in JobIds :
          /\ cancel_request' =
                [status_code |-> IF job_id \notin DOMAIN _jobs THEN "404"
                                 ELSE IF cancel_job_returns(_jobs, job_id)
                                      THEN "200" ELSE "400",
                 runs_begun |-> runs_begun]
          /\ _jobs' = cancel_job(_jobs, job_id)
    /\ UNCHANGED <<loop_vars, grader_run, batch_task, db>>

(* DELETE /batch-queries/{job_id}, when it deletes *)
DeleteBatchQueryJob ==
    /\ batch_task.pc # "none"
    /\ \E job_id \in JobIds :
          /\ delete_job_returns(_jobs, job_id)
          /\ _jobs' = delete_job(_jobs, job_id)
    /\ UNCHANGED <<loop_vars, grader_run, batch_task, cancel_request, db>>

JobNext ==
    \/ StartBatchQuery
    \/ BatchBegins
    \/ BatchRaises
    \/ StartQuestion
    \/ FinishQuestion
    \/ ReturnBatch
    \/ CompleteJob
    \/ FailJob
    \/ CancelBatchQueryJob
    \/ DeleteBatchQueryJob

JobSpec == ServiceInit /\ [][JobNext]_vars

----------------------------------------------------------------------------
(* C32: after a running batch-query job is cancelled no further question   *)
(* is started: the question in flight may finish, the ones after it are    *)
(* not processed.                                                          *)
C32_NoStartAfterCancel ==
    cancel_request.status_code = "200" =>
        runs_begun <= cancel_request.runs_begun

----------------------------------------------------------------------------
(* C39: once cancel_job has returned True the status of the job stays      *)
(* CANCELLED, whatever the background task does afterwards.                *)
C39_CancelledStays ==
    cancel_request.status_code = "200" =>
        \A job_id \in DOMAIN _jobs : _jobs[job_id].status = CANCELLED

----------------------------------------------------------------------------
(* C40: a batch over Q questions and G graph types that runs to its end    *)
(* has exactly one result per (question, graph type) pair, in the order of *)
(* the loops, whatever the outcomes of the single questions; the summary   *)
(* and the progress of the job count Q * G processed = successful + failed *)
(* + skipped, and the job holds the same Q * G results.                    *)
C40_OneResultPerPair ==
    batch_task.pc \in {"returned", "completed"} =>
        LET Q == Len(batch_task.question_ids)
            G == Len(batch_task.graph_types)
            results == batch_task.results
            summary == batch_task.summary
        IN /\ Len(results) = Q * G
           /\ \A q \in 1..Q, g \in 1..G :
                 /\ results[(q - 1) * G + g].question_id
                       = batch_task.question_ids[q]
                 /\ results[(q - 1) * G + g].graph_type
                       = batch_task.graph_types[g]
           /\ summary.total = Q * G
           /\ summary.successful + summary.failed + summary.skipped = Q * G
           /\ \A job_id \in DOMAIN _jobs :
                 LET progress == _jobs[job_id].progress
                 IN /\ progress.total_questions = Q * G
                    /\ progress.processed = Q * G
                    /\ progress.successful + progress.failed
                          + progress.skipped = Q * G
                    /\ _jobs[job_id].results = results

----------------------------------------------------------------------------
(* A collection of StackOverflow questions: services/collection_manager.py  *)
(* (add_questions_to_collection, remove_questions_from_collection) on the   *)
(* session it is given.  The session of the application is made by          *)
(* database.SessionLocal, sessionmaker(autoflush=False); the session of the *)
(* unit tests by sessionmaker(bind=db_engine), which flushes before every   *)
(* query.  question_ids is used through IN and set difference only and is   *)
(* kept as a set.                                                           *)

MaxStoredQuestions == 3

(* so_questions.stack_overflow_id *)
so_questions == 1..MaxStoredQuestions

(* the ids a caller may name: the stored ones and one unknown id *)
RequestedQuestionIds == SUBSET (1..(MaxStoredQuestions + 1))

(* the rows the count query sees after pending rows were added to the    *)
(* session: the pending rows are among them only if the query flushes      *)
count_after_add(d, existing_ids, new_questions) ==
    IF d.autoflush THEN Cardinality(existing_ids \cup new_questions)
    ELSE Cardinality(existing_ids)

add_questions_to_collection(d, question_ids) ==
    LET existing_ids == d.collection_questions
        valid_question_ids == question_ids \cap so_questions
        new_questions == valid_question_ids \ existing_ids
    IN [d EXCEPT !.collection_questions = existing_ids \cup new_questions,
                 !.question_count =
                     count_after_add(d, existing_ids, new_questions),
                 !.call = "add_questions_to_collection",
                 !.question_ids = question_ids,
                 !.before = existing_ids,
                 !.returned = Cardinality(new_questions)]

(* the bulk DELETE is executed at once, the count follows it *)
remove_questions_from_collection(d, question_ids) ==
    LET remaining == d.collection_questions \ question_ids
    IN [d EXCEPT !.collection_questions = remaining,
                 !.question_count = Cardinality(remaining),
                 !.call = "remove_questions_from_collection",
                 !.question_ids = question_ids,
                 !.before = d.collection_questions,
                 !.returned =
                     Cardinality(d.collection_questions \cap question_ids)]

(* create_collection on a session of either kind *)
CreateCollection ==
    /\ ~db.opened
    /\ \E autoflush \in BOOLEAN :
          db' = [NoDb EXCEPT !.opened = TRUE, !.autoflush = autoflush]
    /\ UNCHANGED <<loop_vars, grader_run, _jobs, batch_task, cancel_request>>

AddQuestionsToCollection ==
    /\ db.opened
    /\ \E question_ids \in RequestedQuestionIds :
          db' = add_questions_to_collection(db, question_ids)
    /\ UNCHANGED <<loop_vars, grader_run, _jobs, batch_task, cancel_request>>

RemoveQuestionsFromCollection ==
    /\ db.opened
    /\ \E question_ids \in RequestedQuestionIds :
          db' = remove_questions_from_collection(db, question_ids)
    /\ UNCHANGED <<loop_vars, grader_run, _jobs, batch_task, cancel_request>>

CollectionNext ==
    \/ CreateCollection
    \/ AddQuestionsToCollection
    \/ RemoveQuestionsFromCollection

CollectionSpec == ServiceInit /\ [][CollectionNext]_vars

----------------------------------------------------------------------------
(* C33: after any sequence of add and remove calls question_count is the   *)
(* number of distinct questions in the collection; adding ids already      *)
(* present adds nothing, add returns the number of newly added questions   *)
(* and remove the number actually removed.                                 *)
C33_QuestionCountExact ==
    db.opened =>
        /\ db.question_count = Cardinality(db.collection_questions)
        /\ db.call = "add_questions_to_collection" =>
              /\ db.returned
                    = Cardinality(db.collection_questions \ db.before)
              /\ db.question_ids \subseteq db.before
                    => db.collection_questions = db.before
        /\ db.call = "remove_questions_from_collection" =>
              db.returned = Cardinality(db.before \ db.collection_questions)

====
